---- MODULE Spec2Model ----
(***************************************************************************)
(* Model of the Retail-Chat-Agent catalog scraper (src/catalog/catalog.py) *)
(* and of the ingestion pipeline (src/ingestion/ingest.py): the rate       *)
(* limited fetcher, the collection page parser, the product units, the     *)
(* media uploader and the metadata store.                                  *)
(***************************************************************************)
EXTENDS Integers, Sequences, FiniteSets, TLC

VARIABLES
    program,              \* which entry point runs: "catalog", "ingest", or a direct call harness
    concurrent_requests,  \* scrape's parameter: the value the Semaphore is built with
    sem,                  \* asyncio.Semaphore._value
    mainPc,               \* position of the scrape coroutine
    li,                   \* index into collection_tasks (catalog) of the listing being fetched
    ci,                   \* index into categories of the category being processed
    listing,              \* position of scrape's own listing fetch inside _fetch
    urls_by_category,     \* catalog: category -> list of product URLs; ingest: product_links
    results_by_category,  \* catalog: category -> list of result dicts
    units,                \* the tasks of the current category, in dispatch order
    failure,              \* the exception that ended scrape, or NoFailure
    rows,                 \* the products table, in insertion order
    clock,                \* CURRENT_TIMESTAMP, a logical clock
    call,                 \* direct call harness: the last call and what it returned
    save_local,           \* catalog: scrape's parameter selecting the local sink
    output,               \* catalog: the files written and the counts logged at the end
    fetched,              \* history: request -> number of times session.get was called for it
    qdrant                \* the vector store: its collections and the create requests it got

vars == <<program, concurrent_requests, sem, mainPc, li, ci, listing,
          urls_by_category, results_by_category, units, failure, rows, clock, call,
          save_local, output, fetched, qdrant>>

runVars == <<program, concurrent_requests, sem, mainPc, li, ci, listing,
             urls_by_category, results_by_category, units, failure, save_local, output,
             fetched, qdrant>>

----------------------------------------------------------------------------
(* Bounds of the model *)

\* largest concurrency cap a run is started with
MaxK == 2
\* largest number of anchors on a listing page
MaxAnchors == 3
\* scrape's number_of_pages
number_of_pages == 2
\* scrape's limit_per_page
limit_per_page == 1
\* largest limit a direct call of get_product_urls_from_collection is given
MaxLimit == 2
\* largest value of the logical clock under direct save_product calls
MaxClock == 3

----------------------------------------------------------------------------
(* URLs and listing pages *)

ProductPaths == {"/products/a", "/products/b"}

OtherPaths == {"/pages/about"}

\* an href as written in an anchor: path, query string, fragment
Href(p, q, f) == [path |-> p, query |-> q, fragment |-> f]

Hrefs ==
    { Href(p, q, "") : p \in ProductPaths, q \in {"", "variant=1"} }
        \cup { Href("/products/a", "", "reviews") }
        \cup { Href(p, "", "") : p \in OtherPaths }

RECURSIVE SeqsUpTo(_, _)
SeqsUpTo(S, n) ==
    IF n = 0 THEN { <<>> }
    ELSE LET shorter == SeqsUpTo(S, n - 1)
         IN  shorter \cup { Append(s, x) : s \in { t \in shorter : Len(t) = n - 1 }, x \in S }

\* the text of a listing page: its anchors in document order; "" is the empty sequence
ListingPages == SeqsUpTo(Hrefs, MaxAnchors)

\* soup.select('a[href^="/products/"]')
SelectProductAnchors(html) == SelectSeq(html, LAMBDA h : h.path \in ProductPaths)

\* urlparse(urljoin(collection_url, href))._replace(query="", fragment="").geturl()
NormalizeUrl(h) == [h EXCEPT !.query = "", !.fragment = ""]

RECURSIVE MapNormalize(_)
MapNormalize(s) ==
    IF s = <<>> THEN <<>> ELSE <<NormalizeUrl(Head(s))>> \o MapNormalize(Tail(s))

SeqRange(s) == { s[i] : i \in DOMAIN s }

\* a deduplication that keeps the last occurrence of every key
RECURSIVE KeepLastOccurrences(_)
KeepLastOccurrences(s) ==
    IF s = <<>> THEN <<>>
    ELSE LET rest == KeepLastOccurrences(Tail(s))
         IN  IF Head(s) \in SeqRange(rest) THEN rest ELSE <<Head(s)>> \o rest

\* list(dict.fromkeys(urls)): keeps the first occurrence of every key, in order
RECURSIVE DictFromKeys(_)
DictFromKeys(s) ==
    IF s = <<>> THEN <<>>
    ELSE LET init == DictFromKeys(SubSeq(s, 1, Len(s) - 1))
             last == s[Len(s)]
         IN  IF last \in SeqRange(init) THEN init ELSE Append(init, last)

\* s[:n]
Take(s, n) == SubSeq(s, 1, IF n < Len(s) THEN n ELSE Len(s))

\* the list `urls` built by the loop of get_product_urls_from_collection
CollectedUrls(html) == MapNormalize(SelectProductAnchors(html))

\* what _fetch returns: None, or the text (or bytes) of the response
None == [none |-> TRUE, text |-> <<>>]

Text(t) == [none |-> FALSE, text |-> t]

\* `not html`: None and the empty string are both falsy
Falsy(r) == r.none \/ r.text = <<>>

TruncateBeforeDedup(html, limit) ==
    IF Falsy(html) THEN <<>>
    ELSE DictFromKeys(Take(CollectedUrls(html.text), limit))

\* get_product_urls_from_collection once _fetch has returned `html`
GetProductUrls(html, limit) ==
    IF Falsy(html) THEN <<>>
    ELSE Take(DictFromKeys(CollectedUrls(html.text)), limit)

----------------------------------------------------------------------------
(* The metadata store: DatabaseConnection.save_product *)

Digits == <<"0", "1", "2", "3", "4", "5", "6", "7", "8", "9">>

IsDigit(c) == \E i \in DOMAIN Digits : Digits[i] = c

DigitValue(c) == (CHOOSE i \in DOMAIN Digits : Digits[i] = c) - 1

\* str.replace(ch, ''): every occurrence of ch removed
Remove(s, ch) == SelectSeq(s, LAMBDA c : c /= ch)

RECURSIVE DigitsPrefixValue(_, _)
\* the value of the first n digits of s, most significant first
DigitsPrefixValue(s, n) ==
    IF n = 0 THEN 0 ELSE 10 * DigitsPrefixValue(s, n - 1) + DigitValue(s[n])

\* the value of a string of digits
DigitsValue(s) == DigitsPrefixValue(s, Len(s))

\* a decimal number mant / 10^scale without trailing zeros in the fraction
RECURSIVE Decimal(_, _)
Decimal(mant, scale) ==
    IF scale > 0 /\ mant % 10 = 0 THEN Decimal(mant \div 10, scale - 1)
    ELSE [mant |-> mant, scale |-> scale]

\* float(text) for texts made of digits and points: digits, at most one point, at
\* least one digit; any other text is a ValueError
ParseFloat(s) ==
    LET points   == { i \in DOMAIN s : s[i] = "." }
        digits   == Remove(s, ".")
        wellFormed ==
            /\ \A i \in DOMAIN s : IsDigit(s[i]) \/ s[i] = "."
            /\ Cardinality(points) <= 1
            /\ digits /= <<>>
        scale    == IF points = {} THEN 0 ELSE Len(s) - (CHOOSE i \in points : TRUE)
    IN  IF wellFormed
        THEN [ok |-> TRUE, value |-> Decimal(DigitsValue(digits), scale)]
        ELSE [ok |-> FALSE, value |-> Decimal(0, 0)]

\* float(data["Product Price"].replace('$', '').replace(',', ''))
ParsePrice(text) ==
    CHOOSE r \in { ParseFloat(s) : s \in {Remove(Remove(text, "$"), ",")} } : TRUE

\* the row the INSERT writes; updated_at is not in the column list, 0 stands for
\* the column's default
NewRow(data, price, s3_urls) ==
    [ product_title   |-> data.Product_Title,
      product_url     |-> data.Product_URL,
      product_price   |-> price,
      product_images  |-> s3_urls,
      size_options    |-> data.Size_Options,
      product_details |-> data.Product_Details,
      financing       |-> data.Financing,
      promo_tagline   |-> data.Promo_Tagline,
      image_count     |-> Len(s3_urls),
      updated_at      |-> 0 ]

\* an INSERT without the ON CONFLICT clause on a table without the unique key
UpsertAlwaysInsert(table, row, now) == Append(table, row)

\* an upsert that overwrites the stored columns: DO UPDATE SET every column
UpsertOverwrite(table, row, now) ==
    IF \E i \in DOMAIN table : table[i].product_url = row.product_url
    THEN [ i \in DOMAIN table |->
             IF table[i].product_url = row.product_url
             THEN [row EXCEPT !.updated_at = now]
             ELSE table[i] ]
    ELSE Append(table, row)

\* INSERT ... ON CONFLICT (product_url) DO UPDATE SET updated_at = CURRENT_TIMESTAMP
Upsert(table, row, now) ==
    IF \E i \in DOMAIN table : table[i].product_url = row.product_url
    THEN [ i \in DOMAIN table |->
             IF table[i].product_url = row.product_url
             THEN [table[i] EXCEPT !.updated_at = now]
             ELSE table[i] ]
    ELSE Append(table, row)

\* what the database answers to cur.execute
DbOutcomes == {"ok", "ConnectionFailure"}

\* save_product: the table it leaves and the exception it raises ("" when it returns)
SaveProduct(table, data, s3_urls, db, now) ==
    CHOOSE r \in
        { IF ~price.ok
          THEN [rows |-> table, raised |-> "ValueError", committed |-> FALSE]
          ELSE IF db = "ConnectionFailure"
          THEN [rows |-> table, raised |-> "", committed |-> FALSE]
          ELSE [rows |-> Upsert(table, NewRow(data, price.value, s3_urls), now),
                raised |-> "", committed |-> TRUE] :
          price \in {ParsePrice(data.Product_Price)} } : TRUE

----------------------------------------------------------------------------
(* Product pages and the dict _parse_product_data returns *)

Categories == <<"shoes", "jackets">>

CategorySet == SeqRange(Categories)

\* the text of a product page: its elements; "" is the empty sequence
TitleTag(t) == [tag |-> "title", text |-> t]

\* a text is the sequence of its words and separators
RedDressTitle == <<"Red", " ", "Dress", " ", "|", " ", "Fashion", " ", "Nova">>

ProductPages ==
    { <<>>, <<TitleTag(RedDressTitle)>>, <<[tag |-> "p", text |-> <<"sold", " ", "out">>]>> }

\* soup.title.string if soup.title else "No title"
PageTitle(html) ==
    IF \E i \in DOMAIN html : html[i].tag = "title"
    THEN html[CHOOSE i \in DOMAIN html : html[i].tag = "title"].text
    ELSE <<"No", " ", "title">>

Price20 == <<"$", "2", "0", ".", "0", "0">>

Price1234 == <<"$", "1", ",", "2", "3", "4", ".", "5", "0">>

NoPriceFound == <<"N", "o", " ", "p", "r", "i", "c", "e", " ", "f", "o", "u", "n", "d">>

\* ingest.py's _parse_product_data: only the title and the URL come from its arguments
IngestParseProductData(html, url) ==
    [ Product_Title   |-> PageTitle(html),
      Product_Price   |-> Price20,
      Product_Images  |-> <<"url1", "url2">>,
      Product_Details |-> <<>>,
      Financing       |-> "{}",
      Size_Options    |-> <<>>,
      Promo_Tagline   |-> "",
      Product_URL     |-> url ]

----------------------------------------------------------------------------
(* Direct calls of save_product and of get_product_urls_from_collection *)

NoCall == [op |-> "none"]

NoFailure == [raised |-> FALSE]

Urls == { NormalizeUrl(h) : h \in { g \in Hrefs : g.path \in ProductPaths } }

\* nothing written and nothing logged yet
NoOutput == [done |-> FALSE]

\* the requests of a run: the listing page of a category, the page of a product of a
\* category, image i of a product of a category
NoUrl == Href("", "", "")

FetchKey(kind, category, page, url, image) ==
    [kind |-> kind, category |-> category, page |-> page, url |-> url, image |-> image]

MaxImages == 2

FetchKeys ==
    { FetchKey("listing", c, page, NoUrl, 0) : c \in CategorySet, page \in 0 .. number_of_pages }
        \cup { FetchKey("page", c, 0, url, 0) : c \in CategorySet, url \in Urls }
        \cup { FetchKey("image", c, 0, url, i) :
                   c \in CategorySet, url \in Urls, i \in 0 .. MaxImages - 1 }

NoFetches == [k \in FetchKeys |-> 0]

\* the collections the services use
CollectionNames == {"product_images", "product_text"}

\* a vector store with the collections `existing` that has got no create request yet:
\* creates counts the create requests per name, conflicts those for an existing name
Qdrant(existing) ==
    [ collections |-> existing,
      creates     |-> [n \in CollectionNames |-> 0],
      conflicts   |-> [n \in CollectionNames |-> 0] ]

NoQdrant == Qdrant({})

Counted(log, key) == [log EXCEPT ![key] = @ + 1]

\* no run is in progress
RunIdle ==
    /\ concurrent_requests = 1
    /\ sem = 1
    /\ mainPc = "none"
    /\ li = 0
    /\ ci = 0
    /\ listing = "idle"
    /\ urls_by_category = [c \in CategorySet |-> <<>>]
    /\ results_by_category = [c \in CategorySet |-> <<>>]
    /\ units = <<>>
    /\ failure = NoFailure
    /\ save_local = FALSE
    /\ output = NoOutput
    /\ fetched = NoFetches
    /\ qdrant = NoQdrant

\* the records save_product is called with: the price text is what a parser found
ProductData ==
    { [IngestParseProductData(page, url) EXCEPT !.Product_Price = price] :
        page \in ProductPages \ {<<>>},
        url \in Urls,
        price \in {Price20, Price1234, NoPriceFound} }

S3UrlLists == { <<>>, <<"img_0", "img_1">> }

InitStore ==
    /\ program = "save_product"
    /\ RunIdle
    /\ rows = <<>>
    /\ clock = 1
    /\ call = NoCall

CallSaveProduct ==
    /\ program = "save_product"
    /\ clock <= MaxClock
    /\ \E data \in ProductData, s3_urls \in S3UrlLists, db \in DbOutcomes :
         LET r == SaveProduct(rows, data, s3_urls, db, clock)
         IN  /\ rows' = r.rows
             /\ call' = [op |-> "save_product", data |-> data, s3_urls |-> s3_urls,
                         db |-> db, raised |-> r.raised, committed |-> r.committed]
    /\ clock' = clock + 1
    /\ UNCHANGED runVars

NextStore == CallSaveProduct

SpecStore == InitStore /\ [][NextStore]_vars

InitPages ==
    /\ program = "get_product_urls_from_collection"
    /\ RunIdle
    /\ rows = <<>>
    /\ clock = 1
    /\ call = NoCall

FetchedListings == {None} \cup { Text(p) : p \in ListingPages }

\* one call of get_product_urls_from_collection on what _fetch returned
CallGetProductUrls ==
    /\ program = "get_product_urls_from_collection"
    /\ call = NoCall
    /\ \E html \in FetchedListings, limit \in (0 .. MaxLimit) \cup {60} :
         call' = [op |-> "get_product_urls_from_collection", html |-> html,
                  limit |-> limit, out |-> GetProductUrls(html, limit)]
    /\ UNCHANGED <<runVars, rows, clock>>

\* scrape's per-category deduplication of the URLs its pages returned
CallDedupCategory ==
    /\ program = "get_product_urls_from_collection"
    /\ call = NoCall
    /\ \E p1, p2 \in { GetProductUrls(h, MaxLimit) : h \in FetchedListings } :
         call' = [op |-> "dedup_category", urls |-> p1 \o p2,
                  out |-> DictFromKeys(p1 \o p2)]
    /\ UNCHANGED <<runVars, rows, clock>>

NextPages == CallGetProductUrls \/ CallDedupCategory

SpecPages == InitPages /\ [][NextPages]_vars

----------------------------------------------------------------------------
(* The rate limited fetcher: WebScraper._fetch of both programs *)

\* what session.get does: a response with a status and a body, or an exception
FetchOutcome(kind, body) == [kind |-> kind, body |-> body]

FailedOutcomes ==
    { FetchOutcome(k, <<>>) : k \in {"non200", "ClientError", "TimeoutError"} }

ListingOutcomes == { FetchOutcome("200", p) : p \in ListingPages } \cup FailedOutcomes

ProductOutcomes == { FetchOutcome("200", p) : p \in ProductPages } \cup FailedOutcomes

Returned(value) == [raised |-> "", value |-> value]

Raised(exc) == [raised |-> exc, value |-> None]

\* catalog.py: status 200 gives the text, another status None; `except
\* aiohttp.ClientError` returns None, and the TimeoutError of the total timeout is
\* no ClientError
CatalogFetch(outcome) ==
    CASE outcome.kind = "200" -> Returned(Text(outcome.body))
      [] outcome.kind = "non200" -> Returned(None)
      [] outcome.kind = "ClientError" -> Returned(None)
      [] OTHER -> Raised(outcome.kind)

\* ingest.py: `except HTTPException` names nothing the module defines or imports,
\* so matching any exception against it raises NameError
IngestFetch(outcome) ==
    CASE outcome.kind = "200" -> Returned(Text(outcome.body))
      [] outcome.kind = "non200" -> Returned(None)
      [] OTHER -> Raised("NameError")

Fetch(outcome) == IF program = "catalog" THEN CatalogFetch(outcome) ELSE IngestFetch(outcome)

\* a semaphore that lets every task in
CanAcquireAlways == TRUE

\* `async with self.semaphore`: entered only while the value is positive
CanAcquire == sem > 0

Acquired == sem - 1

NotReleased == sem

Released == sem + 1

\* the tasks that hold a slot of the semaphore
Holding(u) == u.pc \in {"sleeping", "requesting"}

Finished(u) == u.pc \in {"done", "raised", "cancelled"}

\* asyncio.run cancels what is still running when scrape ends with an exception
Cancel(us) ==
    [ i \in DOMAIN us |-> IF Finished(us[i]) THEN us[i] ELSE [us[i] EXCEPT !.pc = "cancelled"] ]

----------------------------------------------------------------------------
(* catalog.py: scrape and the scrape_product tasks *)

RECURSIVE Strip(_)
\* str.strip()
Strip(t) ==
    IF t = <<>> THEN <<>>
    ELSE IF Head(t) = " " THEN Strip(Tail(t))
    ELSE IF t[Len(t)] = " " THEN Strip(SubSeq(t, 1, Len(t) - 1))
    ELSE t

\* the elements of a page that a selector matches, in document order
Select(html, tag) == SelectSeq(html, LAMBDA e : e.tag = tag)

\* str.split(sep)[0]: the text before the first sep
RECURSIVE Before(_, _)
Before(t, sep) ==
    IF t = <<>> \/ Head(t) = sep THEN <<>> ELSE <<Head(t)>> \o Before(Tail(t), sep)

\* \d+ at position i of t: the length of the run of digits that starts there
RECURSIVE DigitRun(_, _)
DigitRun(t, i) ==
    IF i \in DOMAIN t /\ IsDigit(t[i]) THEN 1 + DigitRun(t, i + 1) ELSE 0

\* \s+ at position i of t: the length of the run of spaces that starts there
RECURSIVE SpaceRun(_, _)
SpaceRun(t, i) ==
    IF i \in DOMAIN t /\ t[i] = " " THEN 1 + SpaceRun(t, i + 1) ELSE 0

\* \w of the regular expressions: a word or a digit, not a space or a sign
IsWord(c) == c \notin {" ", "£", ".", ",", "?", "|"}

\* an optional value: Python's None, or a number
NoNumber == [none |-> TRUE, value |-> 0]

Number(n) == [none |-> FALSE, value |-> n]

\* u = img.get("src") or (first candidate of img.get("srcset")), None as the empty text
ImageSource(img) ==
    IF img.src /= <<>> THEN img.src
    ELSE IF img.srcset /= <<>> THEN Before(Strip(Before(img.srcset, ",")), " ")
    ELSE <<>>

\* u.replace("&amp;", "&").split("?")[0]
CleanImageUrl(u) == Before([i \in DOMAIN u |-> IF u[i] = "&amp;" THEN "&" ELSE u[i]], "?")

\* img_urls of _parse_product_data
RECURSIVE ImgUrls(_)
ImgUrls(images) ==
    IF images = <<>> THEN <<>>
    ELSE (IF ImageSource(Head(images)) /= <<>>
          THEN <<CleanImageUrl(ImageSource(Head(images)))>>
          ELSE <<>>) \o ImgUrls(Tail(images))

\* product_details of _parse_product_data: the li items, or the non-empty lines
ProductDetails(html) ==
    LET found == Select(html, "details")
    IN  IF found = <<>> THEN <<>>
        ELSE IF found[1].items /= <<>> THEN found[1].items
        ELSE SelectSeq(found[1].lines, LAMBDA line : line /= <<>>)

\* re.search(r"\bor\s+(\d+)\s+payments?\b", raw, flags=re.I) at position i: "or" at a
\* word boundary, spaces, digits, spaces, "payment" or "payments" at a word boundary
PaymentsAt(raw, i) ==
    LET d == i + 1 + SpaceRun(raw, i + 1)
        w == d + DigitRun(raw, d) + SpaceRun(raw, d + DigitRun(raw, d))
    IN  /\ raw[i] \in {"or", "Or", "OR"}
        /\ i > 1 => ~IsWord(raw[i - 1])
        /\ SpaceRun(raw, i + 1) >= 1
        /\ DigitRun(raw, d) >= 1
        /\ SpaceRun(raw, d + DigitRun(raw, d)) >= 1
        /\ w \in DOMAIN raw
        /\ raw[w] \in {"payment", "payments", "Payment", "Payments", "PAYMENTS"}
        /\ w + 1 \in DOMAIN raw => ~IsWord(raw[w + 1])

\* int(m_payments.group(1)) if m_payments else None
PaymentsCount(raw) ==
    LET found == { i \in DOMAIN raw : PaymentsAt(raw, i) }
    IN  IF found = {} THEN NoNumber
        ELSE LET i == CHOOSE k \in found : \A m \in found : k <= m
                 d == i + 1 + SpaceRun(raw, i + 1)
             IN  Number(DigitsValue(SubSeq(raw, d, d + DigitRun(raw, d) - 1)))

\* where the digits of r"(£\s?\d+(?:\.\d{2})?)" start when it matches at position i, else 0
AmountDigitsAt(raw, i) ==
    IF raw[i] /= "£" THEN 0
    ELSE IF DigitRun(raw, i + 1) >= 1 THEN i + 1
    ELSE IF i + 1 \in DOMAIN raw /\ raw[i + 1] = " " /\ DigitRun(raw, i + 2) >= 1 THEN i + 2
    ELSE 0

\* m_amount.group(1).replace("£ ", "£") if m_amount else None
PaymentAmount(raw) ==
    LET found == { i \in DOMAIN raw : AmountDigitsAt(raw, i) > 0 }
    IN  IF found = {} THEN None
        ELSE LET i == CHOOSE k \in found : \A m \in found : k <= m
                 d == AmountDigitsAt(raw, i)
                 e == d + DigitRun(raw, d)
                 pence == IF e \in DOMAIN raw /\ raw[e] = "." /\ DigitRun(raw, e + 1) >= 2
                          THEN SubSeq(raw, e, e + 2) ELSE <<>>
             IN  Text(<<"£">> \o SubSeq(raw, d, e - 1) \o pence)

\* a dict without keys
EmptyDict == [py |-> "dict", size |-> 0]

\* Python's None where a dict may stand
NullDict == [py |-> "None", size |-> 0]

FinancingAlwaysParsed(html) ==
    [ py |-> "dict", size |-> 3, raw_text |-> <<>>, payments_count |-> NoNumber,
      payment_amount |-> None ]

\* financing of _parse_product_data: {} unless the page has the financing button
Financing(html) ==
    LET found == Select(html, "financing")
    IN  IF found = <<>> THEN EmptyDict
        ELSE LET raw == Strip(found[1].text)
             IN  [ py |-> "dict", size |-> 3,
                   raw_text |-> raw,
                   payments_count |-> PaymentsCount(raw),
                   payment_amount |-> PaymentAmount(raw) ]

\* text.split()[-1]: the last run of characters without a space
RECURSIVE LastWord(_)
LastWord(t) ==
    IF t = <<>> \/ t[Len(t)] = " " THEN <<>>
    ELSE LastWord(SubSeq(t, 1, Len(t) - 1)) \o <<t[Len(t)]>>

\* size_options of _parse_product_data, before the dict.fromkeys
RECURSIVE SizeTexts(_)
SizeTexts(buttons) ==
    IF buttons = <<>> THEN <<>>
    ELSE (IF Strip(Head(buttons)) /= <<>> THEN <<LastWord(Strip(Head(buttons)))>> ELSE <<>>)
             \o SizeTexts(Tail(buttons))

SizeOptions(html) ==
    LET found == Select(html, "sizes")
    IN  IF found = <<>> THEN <<>> ELSE SizeTexts(found[1].buttons)

\* catalog.py's _parse_product_data: every key of the dict it returns; an element the
\* page lacks leaves the key's default
CatalogParseProductData(html, url) ==
    [ Product_Title |->
        IF Select(html, "title") /= <<>> THEN Select(html, "title")[1].text
        ELSE <<"No", " ", "title", " ", "found">>,
      Product_Price |->
        IF Select(html, "price") /= <<>> THEN Strip(Select(html, "price")[1].text)
        ELSE NoPriceFound,
      Product_Images  |-> DictFromKeys(ImgUrls(Select(html, "image"))),
      No_of_Images    |-> Len(DictFromKeys(ImgUrls(Select(html, "image")))),
      Product_Details |-> ProductDetails(html),
      Financing       |-> Financing(html),
      Promo_Tagline   |->
        IF Select(html, "tagline") /= <<>> THEN Text(Strip(Select(html, "tagline")[1].text))
        ELSE None,
      Size_Options    |-> DictFromKeys(SizeOptions(html)),
      Product_URL     |-> url ]

ScrapeProductStrict(html, url) ==
    IF Falsy(html) \/ Select(html.text, "title") = <<>>
    THEN [Product_URL |-> url, error |-> "Failed to retrieve page"]
    ELSE CatalogParseProductData(html.text, url)

\* scrape_product once _fetch has returned `html`
ScrapeProductResult(html, url) ==
    IF Falsy(html)
    THEN [Product_URL |-> url, error |-> "Failed to retrieve page"]
    ELSE CatalogParseProductData(html.text, url)

\* the elements product pages are drawn from: each is on the page or not
Img(src, srcset) == [tag |-> "image", src |-> src, srcset |-> srcset]

TitleElements == { <<>>, <<TitleTag(RedDressTitle)>> }

PriceElements == { <<>>, <<[tag |-> "price", text |-> <<" ">> \o Price20]>> }

ImageElements ==
    { <<>>,
      <<Img(<<>>, <<>>)>>,
      <<Img(<<"cdn/a.jpg">>, <<>>)>>,
      <<Img(<<"cdn/a.jpg", "?", "w=1", "&amp;", "h=2">>, <<>>),
        Img(<<>>, <<"cdn/a.jpg", "?", "w=2", " ", "1x", ",", " ", "cdn/b.jpg", " ", "2x">>),
        Img(<<>>, <<" ", "cdn/b.jpg", " ", "2x">>)>> }

DetailsElements ==
    { <<>>,
      <<[tag |-> "details", items |-> << <<"Cotton">>, <<"Imported">> >>, lines |-> <<>>]>>,
      <<[tag |-> "details", items |-> <<>>,
         lines |-> << <<"Cotton">>, <<>>, <<"Imported">> >>]>> }

FinancingElements ==
    { <<>>,
      <<[tag |-> "financing",
         text |-> <<"or", " ", "4", " ", "payments", " ", "of", " ", "£", " ", "1", "2", ".",
                    "5", "0">>]>>,
      <<[tag |-> "financing", text |-> <<"Pay", " ", "later">>]>> }

SizeElements ==
    { <<>>,
      <<[tag |-> "sizes",
         buttons |-> << <<"Size", " ", "M">>, <<"M">>, <<" ">>, <<"Size", " ", "L">> >>]>> }

TaglineElements == { <<>>, <<[tag |-> "tagline", text |-> <<"New", " ", "in">>]>> }

OtherElements == { <<>>, <<[tag |-> "p", text |-> <<"sold", " ", "out">>]>> }

\* the page contents scrape_product is called on, the empty content among them
ParsedPages ==
    { t \o p \o i \o d \o f \o z \o g \o o :
        t \in TitleElements, p \in PriceElements, i \in ImageElements,
        d \in DetailsElements, f \in FinancingElements, z \in SizeElements,
        g \in TaglineElements, o \in OtherElements }

\* direct calls of scrape_product on what _fetch returned
InitParse ==
    /\ program = "scrape_product"
    /\ RunIdle
    /\ rows = <<>>
    /\ clock = 1
    /\ call = NoCall

CallScrapeProduct ==
    /\ program = "scrape_product"
    /\ call = NoCall
    /\ \E html \in {None} \cup { Text(page) : page \in ParsedPages }, url \in Urls :
         call' = [ op |-> "scrape_product", html |-> html, url |-> url,
                   out |-> ScrapeProductResult(html, url) ]
    /\ UNCHANGED <<runVars, rows, clock>>

NextParse == CallScrapeProduct

SpecParse == InitParse /\ [][NextParse]_vars

PageMajorTasks ==
    [ k \in 1 .. (Len(Categories) * number_of_pages) |->
        [ category |-> Categories[((k - 1) % Len(Categories)) + 1],
          page     |-> ((k - 1) \div Len(Categories)) + 1 ] ]

\* the (category, page) pairs in the order scrape builds them
collection_tasks ==
    [ k \in 1 .. (Len(Categories) * number_of_pages) |->
        [ category |-> Categories[((k - 1) \div number_of_pages) + 1],
          page     |-> ((k - 1) % number_of_pages) + 1 ] ]

KeepDuplicates(ubc) == ubc

\* for category in urls_by_category: list(dict.fromkeys(...))
DedupByCategory(ubc) == [c \in CategorySet |-> DictFromKeys(ubc[c])]

NextCategory(k, ubc) == IF k <= Len(Categories) THEN k ELSE 0

\* the first category from index k on that has URLs, 0 when there is none
NextNonEmpty(k, ubc) ==
    LET js == { j \in k .. Len(Categories) : ubc[Categories[j]] /= <<>> }
    IN  IF js = {} THEN 0 ELSE CHOOSE j \in js : \A i \in js : j <= i

\* tasks = [scraper.scrape_product(url) for url in urls_by_category[category]]
\* `got` keeps how the task's request ended
ScrapeProductTasks(urls) ==
    [ i \in DOMAIN urls |-> [url |-> urls[i], pc |-> "waiting", got |-> "nothing"] ]

\* how a request ended: the kind of failure, or content, or an empty body
Got(outcome) ==
    IF outcome.kind /= "200" THEN outcome.kind
    ELSE IF outcome.body = <<>> THEN "empty" ELSE "content"

SuccessCount(results) == Len(SelectSeq(results, LAMBDA r : "error" \notin DOMAIN r))

RECURSIVE SumOver(_, _)
SumOver(f, S) ==
    IF S = {} THEN 0 ELSE LET c == CHOOSE x \in S : TRUE IN f[c] + SumOver(f, S \ {c})

\* the end of scrape: the files written (files), what was handed to remote storage
\* (remote: the else branch only logs a line), and the counts logged: products saved per
\* file (saved), failed products (failed: no line logs them) and the total of successes
Output(results, local) ==
    IF local
    THEN [ done   |-> TRUE,
           files  |-> [c \in { d \in CategorySet : results[d] /= <<>> } |-> results[c]],
           remote |-> <<>>,
           saved  |-> [c \in { d \in CategorySet : results[d] /= <<>> } |->
                          SuccessCount(results[c])],
           failed |-> <<>>,
           total  |-> SumOver([c \in CategorySet |-> SuccessCount(results[c])], CategorySet) ]
    ELSE [ done |-> TRUE, files |-> <<>>, remote |-> <<>>, saved |-> <<>>, failed |-> <<>>,
           total |-> -1 ]

\* get_product_urls_from_collection on what _fetch did: the URLs, or _fetch's exception
ListingResult(r, limit) ==
    [raised |-> r.raised, urls |-> IF r.raised /= "" THEN <<>> ELSE GetProductUrls(r.value, limit)]

\* every way a listing fetch of the catalog run can end
CatalogListingResults ==
    { ListingResult(CatalogFetch(o), limit_per_page) : o \in ListingOutcomes }

Init ==
    /\ program = "catalog"
    /\ concurrent_requests \in 1 .. MaxK
    /\ sem = concurrent_requests
    /\ save_local \in BOOLEAN
    /\ mainPc = "listing"
    /\ li = 1
    /\ ci = 0
    /\ listing = "waiting"
    /\ urls_by_category = [c \in CategorySet |-> <<>>]
    /\ results_by_category = [c \in CategorySet |-> <<>>]
    /\ units = <<>>
    /\ failure = NoFailure
    /\ output = NoOutput
    /\ fetched = NoFetches
    /\ qdrant = NoQdrant
    /\ rows = <<>>
    /\ clock = 1
    /\ call = NoCall

\* scrape goes on to the product phase of the first category from index k on, or ends
ProductPhase(k, ubc, results, us) ==
    LET j == NextNonEmpty(k, ubc)
    IN  IF j = 0
        THEN /\ mainPc' = "done"
             /\ ci' = Len(Categories)
             /\ units' = us
             /\ output' = Output(results, save_local)
        ELSE /\ mainPc' = "products"
             /\ ci' = j
             /\ units' = ScrapeProductTasks(ubc[Categories[j]])
             /\ output' = output

\* scrape ends with exception exc: the tasks still running are cancelled
Abort(exc, where, us) ==
    /\ mainPc' = "aborted"
    /\ failure' = [raised |-> TRUE, exc |-> exc, where |-> where]
    /\ units' = Cancel(us)
    /\ sem' = concurrent_requests

\* the listing request scrape is at: page `page` of a category in the catalog run, the
\* collection URL of the category (no page parameter) in the ingest run
ListingKey ==
    IF program = "catalog"
    THEN FetchKey("listing", collection_tasks[li].category, collection_tasks[li].page, NoUrl, 0)
    ELSE FetchKey("listing", Categories[ci], 0, NoUrl, 0)

\* the request a task is at: its product page, or image i of its product
UnitKey(unit) ==
    IF program = "catalog"
    THEN FetchKey("page", Categories[ci], 0, unit.url, 0)
    ELSE IF unit.stage = "page"
    THEN FetchKey("page", unit.category, 0, unit.url, 0)
    ELSE FetchKey("image", unit.category, 0, unit.url, unit.i)

EnteredDispatching == "requesting"

\* where _fetch stands once it is inside the semaphore: asyncio.sleep(request_delay)
\* comes before session.get
Entered == "sleeping"

\* the listing fetch enters the semaphore
ListingAcquire ==
    /\ mainPc = "listing"
    /\ listing = "waiting"
    /\ CanAcquire
    /\ sem' = Acquired
    /\ listing' = Entered
    /\ UNCHANGED <<program, qdrant, fetched, concurrent_requests, mainPc, li, ci,
                   urls_by_category, results_by_category, units, failure, rows, clock, call,
                   save_local, output>>

\* asyncio.sleep(request_delay) is over and session.get is called
ListingDelay ==
    /\ mainPc = "listing"
    /\ listing = "sleeping"
    /\ listing' = "requesting"
    /\ fetched' = Counted(fetched, ListingKey)
    /\ UNCHANGED <<program, qdrant, concurrent_requests, sem, mainPc, li, ci, urls_by_category,
                   results_by_category, units, failure, rows, clock, call, save_local, output>>

\* catalog: the listing fetch ends; scrape extends the category's URLs and fetches the
\* next listing, or deduplicates and dispatches the first category's tasks
CatalogListingRespond ==
    /\ program = "catalog"
    /\ mainPc = "listing"
    /\ listing = "requesting"
    /\ \E r \in CatalogListingResults :
         LET cat  == collection_tasks[li].category
             ubc  == [urls_by_category EXCEPT ![cat] = @ \o r.urls]
         IN  IF r.raised /= ""
             THEN /\ Abort(r.raised, "listing _fetch", units)
                  /\ listing' = "idle"
                  /\ UNCHANGED <<li, ci, urls_by_category, output>>
             ELSE IF li < Len(collection_tasks)
             THEN /\ urls_by_category' = ubc
                  /\ li' = li + 1
                  /\ listing' = "waiting"
                  /\ sem' = Released
                  /\ UNCHANGED <<mainPc, ci, units, failure, output>>
             ELSE /\ urls_by_category' = DedupByCategory(ubc)
                  /\ listing' = "idle"
                  /\ sem' = Released
                  /\ ProductPhase(1, DedupByCategory(ubc), results_by_category, units)
                  /\ UNCHANGED <<li, failure>>
    /\ UNCHANGED <<program, qdrant, fetched, concurrent_requests, results_by_category, rows,
                   clock, call, save_local>>

\* a task's fetch enters the semaphore
UnitAcquire(u) ==
    /\ mainPc = "products"
    /\ units[u].pc = "waiting"
    /\ CanAcquire
    /\ sem' = Acquired
    /\ units' = [units EXCEPT ![u].pc = Entered]
    /\ UNCHANGED <<program, qdrant, fetched, concurrent_requests, mainPc, li, ci, listing,
                   urls_by_category, results_by_category, failure, rows, clock, call,
                   save_local, output>>

\* a task's asyncio.sleep(request_delay) is over and session.get is called
UnitDelay(u) ==
    /\ mainPc = "products"
    /\ units[u].pc = "sleeping"
    /\ units' = [units EXCEPT ![u].pc = "requesting"]
    /\ fetched' = Counted(fetched, UnitKey(units[u]))
    /\ UNCHANGED <<program, qdrant, concurrent_requests, sem, mainPc, li, ci, listing,
                   urls_by_category, results_by_category, failure, rows, clock, call,
                   save_local, output>>

Overwritten(results, category, result) == [results EXCEPT ![category] = <<result>>]

\* results_by_category[category].append(result)
Appended(results, category, result) == [results EXCEPT ![category] = Append(@, result)]

\* catalog: a scrape_product task ends and scrape, awaiting it, appends its result; after
\* the category's last task scrape goes on to the next category or to the output
CatalogUnitRespond(u) ==
    /\ program = "catalog"
    /\ mainPc = "products"
    /\ units[u].pc = "requesting"
    /\ \E outcome \in ProductOutcomes :
         LET r       == Fetch(outcome)
             cat     == Categories[ci]
             us      == [units EXCEPT ![u].pc = IF r.raised /= "" THEN "raised" ELSE "done",
                                      ![u].got = Got(outcome)]
             results == Appended(results_by_category, cat,
                                 ScrapeProductResult(r.value, units[u].url))
         IN  IF r.raised /= ""
             THEN /\ Abort(r.raised, "product _fetch", us)
                  /\ UNCHANGED <<ci, results_by_category, output>>
             ELSE /\ results_by_category' = results
                  /\ sem' = Released
                  /\ failure' = failure
                  /\ IF \A i \in DOMAIN us : Finished(us[i])
                     THEN ProductPhase(ci + 1, urls_by_category, results, us)
                     ELSE /\ units' = us
                          /\ UNCHANGED <<mainPc, ci, output>>
    /\ UNCHANGED <<program, qdrant, fetched, concurrent_requests, li, listing, urls_by_category,
                   rows, clock, call, save_local>>

Next ==
    \/ ListingAcquire
    \/ ListingDelay
    \/ CatalogListingRespond
    \/ \E u \in DOMAIN units : UnitAcquire(u)
    \/ \E u \in DOMAIN units : UnitDelay(u)
    \/ \E u \in DOMAIN units : CatalogUnitRespond(u)

Spec == Init /\ [][Next]_vars

----------------------------------------------------------------------------
(* ingest.py: scrape and the process_full_product tasks *)

\* get_product_urls_from_collection's default limit
default_limit == 60

\* ingest.py's WebScraper defines no get_product_urls_from_collection: the call of scrape
\* is taken to be the collection page parser, with its default limit
IngestGetProductUrls(html) == GetProductUrls(html, default_limit)

IngestListingResults ==
    { [raised |-> IngestFetch(o).raised,
       urls   |-> IF IngestFetch(o).raised /= "" THEN <<>>
                  ELSE IngestGetProductUrls(IngestFetch(o).value)] : o \in ListingOutcomes }

\* the product pages served during an ingestion run
IngestProductOutcomes ==
    { FetchOutcome("200", p) : p \in { <<>>, <<TitleTag(RedDressTitle)>> } } \cup FailedOutcomes

\* the bytes of an image response
ImageOutcomes == { FetchOutcome("200", b) : b \in { <<>>, <<"jpeg">> } } \cup FailedOutcomes

\* what put_object does
UploadOutcomes == {"ok", "ClientError"}

RECURSIVE BeforeBar(_)
\* title.split('|')[0]
BeforeBar(t) ==
    IF t = <<>> \/ Head(t) = "|" THEN <<>> ELSE <<Head(t)>> \o BeforeBar(Tail(t))

\* data["Product Title"].split('|')[0].strip().replace(' ', '-')
FolderName(title) ==
    LET t == Strip(BeforeBar(title))
    IN  [ i \in DOMAIN t |-> IF t[i] = " " THEN "-" ELSE t[i] ]

\* f"{category}/{folder_name}/img_{i}.jpg"
S3Key(category, folder_name, i) == [category |-> category, folder |-> folder_name, img |-> i]

\* upload_image_bytes: the link of the stored object, or None (here NoLink)
NoLink == [bucket |-> "", key |-> S3Key("", <<>>, -1)]

UploadImageBytes(s3_key, up) ==
    IF up = "ok" THEN [bucket |-> "your-s3-bucket", key |-> s3_key] ELSE NoLink

\* tasks = [scraper.process_full_product(link, category) for link in product_links]
ProcessFullProductTasks(links, category) ==
    [ i \in DOMAIN links |->
        [ url |-> links[i], category |-> category, pc |-> "waiting", stage |-> "page",
          i |-> 0, data |-> IngestParseProductData(<<>>, links[i]), s3_urls |-> <<>>,
          uploaded |-> {}, saved |-> FALSE ] ]

InitIngest ==
    /\ program = "ingest"
    /\ concurrent_requests \in 1 .. MaxK
    /\ sem = concurrent_requests
    /\ save_local = FALSE
    /\ mainPc = "startup"
    /\ li = 0
    /\ ci = 1
    /\ listing = "idle"
    /\ urls_by_category = [c \in CategorySet |-> <<>>]
    /\ results_by_category = [c \in CategorySet |-> <<>>]
    /\ units = <<>>
    /\ failure = NoFailure
    /\ output = NoOutput
    /\ fetched = NoFetches
    /\ qdrant = NoQdrant
    /\ rows = <<>>
    /\ clock = 1
    /\ call = NoCall

\* the construction of a client succeeds or raises
ClientOutcomes == {"ok", "error"}

\* what scrape raises when a constructor raises: S3Connection comes first
StartupError(s3, db) ==
    IF s3 = "error" THEN "BotoCoreError"
    ELSE IF db = "error" THEN "OperationalError"
    ELSE ""

StartupAbortsNever(s3, db) == FALSE

\* scrape does not catch what the constructors raise
StartupAborts(s3, db) == StartupError(s3, db) /= ""

\* ingest: scrape constructs the two clients, before the session and the category loop
IngestStartup ==
    /\ program = "ingest"
    /\ mainPc = "startup"
    /\ \E s3, db \in ClientOutcomes :
         /\ failure' = IF StartupError(s3, db) /= ""
                        THEN [raised |-> TRUE, exc |-> StartupError(s3, db), where |-> "startup"]
                        ELSE failure
         /\ IF StartupAborts(s3, db)
            THEN mainPc' = "aborted" /\ listing' = "idle"
            ELSE mainPc' = "listing" /\ listing' = "waiting"
    /\ UNCHANGED <<program, qdrant, fetched, concurrent_requests, sem, li, ci, urls_by_category,
                   results_by_category, units, rows, clock, call, save_local, output>>

\* every task of the category has been awaited: scrape fetches the next category's
\* listing, or ends
IngestNextCategory ==
    IF ci < Len(Categories)
    THEN /\ ci' = ci + 1
         /\ mainPc' = "listing"
         /\ listing' = "waiting"
    ELSE /\ ci' = ci
         /\ mainPc' = "done"
         /\ listing' = "idle"

\* ingest: the listing fetch ends and scrape dispatches the category's tasks
IngestListingRespond ==
    /\ program = "ingest"
    /\ mainPc = "listing"
    /\ listing = "requesting"
    /\ \E r \in IngestListingResults :
         IF r.raised /= ""
         THEN /\ Abort(r.raised, "listing _fetch", units)
              /\ listing' = "idle"
              /\ UNCHANGED <<ci, urls_by_category>>
         ELSE /\ urls_by_category' = [urls_by_category EXCEPT ![Categories[ci]] = r.urls]
              /\ sem' = Released
              /\ failure' = failure
              /\ IF r.urls = <<>>
                 THEN /\ IngestNextCategory
                      /\ units' = units
                 ELSE /\ units' = ProcessFullProductTasks(r.urls, Categories[ci])
                      /\ mainPc' = "products"
                      /\ listing' = "idle"
                      /\ ci' = ci
    /\ UNCHANGED <<program, qdrant, fetched, concurrent_requests, li, results_by_category, rows,
                   clock, call, save_local, output>>

\* a task has ended without an exception and scrape has awaited it
IngestTaskEnds(us) ==
    /\ units' = us
    /\ failure' = failure
    /\ IF \A i \in DOMAIN us : Finished(us[i])
       THEN IngestNextCategory
       ELSE UNCHANGED <<mainPc, ci, listing>>

NoMoreImages(unit) == FALSE

\* for i, img_url in enumerate(data["Product Images"]): an image is left after image i
MoreImages(unit) == unit.i + 1 < Len(unit.data.Product_Images)

\* process_full_product after image i: the next image's fetch, or save_product and the end
AfterImage(u, unit, newSem) ==
    IF MoreImages(unit)
    THEN /\ units' = [units EXCEPT ![u] = [unit EXCEPT !.i = @ + 1, !.pc = "waiting"]]
         /\ sem' = newSem
         /\ UNCHANGED <<mainPc, ci, listing, failure, rows, clock>>
    ELSE \E db \in DbOutcomes :
           \E r \in {SaveProduct(rows, unit.data, unit.s3_urls, db, clock)} :
               /\ rows' = r.rows
               /\ clock' = clock + 1
               /\ IF r.raised /= ""
                  THEN /\ Abort(r.raised, "save_product",
                                [units EXCEPT ![u] = [unit EXCEPT !.pc = "raised"]])
                       /\ UNCHANGED <<ci, listing>>
                  ELSE /\ sem' = newSem
                       /\ IngestTaskEnds([units EXCEPT ![u] =
                              [unit EXCEPT !.pc = "done", !.saved = r.committed]])

\* ingest: the page fetch of a task ends
IngestPageRespond(u) ==
    /\ program = "ingest"
    /\ mainPc = "products"
    /\ units[u].pc = "requesting"
    /\ units[u].stage = "page"
    /\ \E outcome \in IngestProductOutcomes :
         LET r == Fetch(outcome)
         IN  IF r.raised /= ""
             THEN /\ Abort(r.raised, "product _fetch",
                           [units EXCEPT ![u].pc = "raised"])
                  /\ UNCHANGED <<ci, listing, rows, clock>>
             ELSE IF Falsy(r.value)
             THEN /\ sem' = Released
                  /\ IngestTaskEnds([units EXCEPT ![u].pc = "done"])
                  /\ UNCHANGED <<rows, clock>>
             ELSE /\ sem' = Released
                  /\ units' = [units EXCEPT ![u] =
                        [@ EXCEPT !.pc = "waiting", !.stage = "image", !.i = 0,
                                  !.data = IngestParseProductData(r.value.text, units[u].url)]]
                  /\ UNCHANGED <<mainPc, ci, listing, failure, rows, clock>>
    /\ UNCHANGED <<program, qdrant, fetched, concurrent_requests, li, urls_by_category,
                   results_by_category, call, save_local, output>>

\* ingest: the fetch of image i of a task ends
IngestImageRespond(u) ==
    /\ program = "ingest"
    /\ mainPc = "products"
    /\ units[u].pc = "requesting"
    /\ units[u].stage = "image"
    /\ \E outcome \in ImageOutcomes :
         LET r == Fetch(outcome)
         IN  IF r.raised /= ""
             THEN /\ Abort(r.raised, "image _fetch",
                           [units EXCEPT ![u].pc = "raised"])
                  /\ UNCHANGED <<ci, listing, rows, clock>>
             ELSE IF Falsy(r.value)
             THEN AfterImage(u, units[u], Released)
             ELSE /\ sem' = Released
                  /\ units' = [units EXCEPT ![u].pc = "uploading"]
                  /\ UNCHANGED <<mainPc, ci, listing, failure, rows, clock>>
    /\ UNCHANGED <<program, qdrant, fetched, concurrent_requests, li, urls_by_category,
                   results_by_category, call, save_local, output>>

\* ingest: put_object for image i of a task ends
IngestUploadDone(u) ==
    /\ program = "ingest"
    /\ mainPc = "products"
    /\ units[u].pc = "uploading"
    /\ \E up \in UploadOutcomes, unit \in {units[u]} :
         \E s3_key \in {S3Key(unit.category, FolderName(unit.data.Product_Title), unit.i)} :
         \E s3_link \in {UploadImageBytes(s3_key, up)} :
             AfterImage(u,
                 [unit EXCEPT
                    !.s3_urls  = IF s3_link /= NoLink THEN Append(@, s3_link) ELSE @,
                    !.uploaded = IF up = "ok" THEN @ \cup {unit.i} ELSE @],
                 sem)
    /\ UNCHANGED <<program, qdrant, fetched, concurrent_requests, li, urls_by_category,
                   results_by_category, call, save_local, output>>

NextIngest ==
    \/ IngestStartup
    \/ ListingAcquire
    \/ ListingDelay
    \/ IngestListingRespond
    \/ \E u \in DOMAIN units : UnitAcquire(u)
    \/ \E u \in DOMAIN units : UnitDelay(u)
    \/ \E u \in DOMAIN units : IngestPageRespond(u)
    \/ \E u \in DOMAIN units : IngestImageRespond(u)
    \/ \E u \in DOMAIN units : IngestUploadDone(u)

SpecIngest == InitIngest /\ [][NextIngest]_vars

\* a run of either program
InitRuns == Init \/ InitIngest

NextRuns == Next \/ NextIngest

SpecRuns == InitRuns /\ [][NextRuns]_vars

\* a run in which the event loop keeps running what can run and every network call,
\* upload and database call ends
SpecRunsFair == SpecRuns /\ WF_vars(NextRuns)

----------------------------------------------------------------------------
(* vectorstore.py create_collection and the health check's check_qdrant, run together *)

\* required_collections of check_qdrant, in the order of the dict
required_collections == <<"product_images", "product_text">>

\* a caller: a create_collection(name) call, or the check_qdrant task; `seen` is the list
\* of collections it was answered, j the index into required_collections
Caller(op, name) == [op |-> op, name |-> name, pc |-> "start", seen |-> {}, j |-> 1]

\* the vector store after a create request for `name`: it creates the collection, or
\* answers a conflict when the collection exists
CreateRequest(store, name) ==
    [ collections |-> store.collections \cup {name},
      creates     |-> [store.creates EXCEPT ![name] = @ + 1],
      conflicts   |-> IF name \in store.collections
                      THEN [store.conflicts EXCEPT ![name] = @ + 1]
                      ELSE store.conflicts ]

\* two create_collection calls and one check_qdrant task against one vector store
InitCollections ==
    /\ program = "create_collection"
    /\ concurrent_requests = 1
    /\ sem = 1
    /\ mainPc = "none"
    /\ li = 0
    /\ ci = 0
    /\ listing = "idle"
    /\ urls_by_category = [c \in CategorySet |-> <<>>]
    /\ results_by_category = [c \in CategorySet |-> <<>>]
    /\ \E first, second \in CollectionNames :
          units = << Caller("create_collection", first), Caller("create_collection", second),
                     Caller("check_qdrant", "") >>
    /\ failure = NoFailure
    /\ save_local = FALSE
    /\ output = NoOutput
    /\ fetched = NoFetches
    /\ \E existing \in SUBSET CollectionNames : qdrant = Qdrant(existing)
    /\ rows = <<>>
    /\ clock = 1
    /\ call = NoCall

\* collections = await client.get_collections() / requests.get(f"{base_url}/collections")
GetCollections(u) ==
    /\ program = "create_collection"
    /\ units[u].pc = "start"
    /\ units' = [units EXCEPT ![u].pc = "listed", ![u].seen = qdrant.collections]
    /\ UNCHANGED qdrant
    /\ UNCHANGED <<program, concurrent_requests, sem, mainPc, li, ci, listing,
                   urls_by_category, results_by_category, failure, rows, clock, call,
                   save_local, output, fetched>>

\* create_collection after the list: return when the name is in it, else create
CreateIfMissing(u) ==
    /\ program = "create_collection"
    /\ units[u].op = "create_collection"
    /\ units[u].pc = "listed"
    /\ IF units[u].name \in units[u].seen
       THEN /\ units' = [units EXCEPT ![u].pc = "done"]
            /\ UNCHANGED qdrant
       ELSE /\ qdrant' = CreateRequest(qdrant, units[u].name)
            /\ units' = [units EXCEPT ![u].pc = IF units[u].name \in qdrant.collections
                                                THEN "raised" ELSE "done"]
    /\ UNCHANGED <<program, concurrent_requests, sem, mainPc, li, ci, listing,
                   urls_by_category, results_by_category, failure, rows, clock, call,
                   save_local, output, fetched>>

\* check_qdrant's loop over required_collections: PUT the collection when the list did
\* not have it, raise when the answer is not 200 or 201; after the loop, the final list
CheckQdrantLoop(u) ==
    /\ program = "create_collection"
    /\ units[u].op = "check_qdrant"
    /\ units[u].pc = "listed"
    /\ IF units[u].j > Len(required_collections)
       THEN /\ units' = [units EXCEPT ![u].pc = "done", ![u].seen = qdrant.collections]
            /\ UNCHANGED qdrant
       ELSE LET name == required_collections[units[u].j]
            IN  IF name \in units[u].seen
                THEN /\ units' = [units EXCEPT ![u].j = @ + 1]
                     /\ UNCHANGED qdrant
                ELSE /\ qdrant' = CreateRequest(qdrant, name)
                     /\ units' = [units EXCEPT
                                     ![u].j = @ + 1,
                                     ![u].pc = IF name \in qdrant.collections
                                               THEN "raised" ELSE "listed"]
    /\ UNCHANGED <<program, concurrent_requests, sem, mainPc, li, ci, listing,
                   urls_by_category, results_by_category, failure, rows, clock, call,
                   save_local, output, fetched>>

NextCollections ==
    \/ \E u \in DOMAIN units : GetCollections(u)
    \/ \E u \in DOMAIN units : CreateIfMissing(u)
    \/ \E u \in DOMAIN units : CheckQdrantLoop(u)

SpecCollections == InitCollections /\ [][NextCollections]_vars

----------------------------------------------------------------------------
(* Properties *)

\* the fetches that have entered the semaphore and not yet left it
InFlight ==
    (IF listing \in {"sleeping", "requesting"} THEN 1 ELSE 0)
        + Cardinality({ u \in DOMAIN units : Holding(units[u]) })

\* C1: in every state of a run of either program the number of fetches inside the
\* semaphore (listing, product page and image fetches together, across categories) is at
\* most concurrent_requests
C1_ConcurrencyCap == InFlight <= concurrent_requests

\* C1's case: the cap is reached while another task waits to enter
C1_CapReachedWitness ==
    /\ InFlight = concurrent_requests
    /\ \E u \in DOMAIN units : units[u].pc = "waiting"
    /\ \E u \in DOMAIN units : Holding(units[u])

\* C2: _fetch never raises to its caller: a timeout, a transport error or a non-2xx
\* status gives None
C2_FetchNeverRaises ==
    ~(failure.raised /\ failure.where \in {"listing _fetch", "product _fetch", "image _fetch"})

\* C3: a catalog run does not abort on a failed product fetch, and a category's results
\* are one product record per fetched page and one error record per failed fetch
C3_PartialFailureIsolated ==
    /\ ~(failure.raised /\ failure.where = "product _fetch")
    /\ mainPc = "products" =>
         LET results == results_by_category[Categories[ci]]
             ended   == { u \in DOMAIN units : Finished(units[u]) }
             failed  == { u \in ended : units[u].got /= "content" }
         IN  /\ Len(results) = Cardinality(ended)
             /\ Len(results) - SuccessCount(results) = Cardinality(failed)
             /\ SuccessCount(results) = Cardinality(ended \ failed)

\* C4: in an ingestion run no task is cancelled because a sibling's fetch, upload or
\* save failed
C4_NoSiblingCancelled == \A u \in DOMAIN units : units[u].pc /= "cancelled"

RowsOf(url) == { i \in DOMAIN rows : rows[i].product_url = url }

\* C5: the products table never holds two rows with the same product_url, and after a
\* committed upsert of a URL it holds exactly one row for it
C5_OneRowPerUrl ==
    /\ \A i, j \in DOMAIN rows : rows[i].product_url = rows[j].product_url => i = j
    /\ (call.op = "save_product" /\ call.committed) =>
          Cardinality(RowsOf(call.data.Product_URL)) = 1

\* C5's case: the same URL has been upserted again and the table holds its one row
C5_DuplicateUpsertWitness ==
    /\ call.op = "save_product"
    /\ call.committed
    /\ \E i \in RowsOf(call.data.Product_URL) : rows[i].updated_at > 0
    /\ Len(rows) = 1

\* a row without its update timestamp
Columns(row) == [row EXCEPT !.updated_at = 0]

\* C6: a committed upsert of a URL that is not stored appends one row holding the
\* record's values; an upsert of a stored URL changes nothing but that row's updated_at;
\* no upsert changes a row of another URL
C6_UpsertStep ==
    call'.op = "save_product" =>
        LET url    == call'.data.Product_URL
            stored == RowsOf(url) /= {}
        IN  /\ Len(rows') >= Len(rows)
            /\ \A i \in DOMAIN rows :
                  /\ Columns(rows'[i]) = Columns(rows[i])
                  /\ rows[i].product_url /= url => rows'[i] = rows[i]
            /\ stored => Len(rows') = Len(rows)
            /\ (stored /\ call'.committed) =>
                  \A i \in RowsOf(url) : rows'[i].updated_at = clock
            /\ ~call'.committed => rows' = rows
            /\ (~stored /\ call'.committed) =>
                  /\ Len(rows') = Len(rows) + 1
                  /\ LET row == rows'[Len(rows')]
                     IN  /\ row.product_url = url
                         /\ row.product_title = call'.data.Product_Title
                         /\ row.product_images = call'.s3_urls
                         /\ row.image_count = Len(call'.s3_urls)
                         /\ row.size_options = call'.data.Size_Options
                         /\ row.product_details = call'.data.Product_Details
                         /\ row.financing = call'.data.Financing
                         /\ row.promo_tagline = call'.data.Promo_Tagline

C6_UpsertFrame == [][C6_UpsertStep]_vars

\* C6's case: a stored URL was upserted again with another title and other images, and
\* the row still holds the first insert's
C6_SecondUpsertWitness ==
    /\ call.op = "save_product"
    /\ call.committed
    /\ \E i \in RowsOf(call.data.Product_URL) :
          /\ rows[i].updated_at > 0
          /\ rows[i].product_title /= call.data.Product_Title
          /\ rows[i].product_images /= call.s3_urls

NoDuplicates(s) == \A i, j \in DOMAIN s : s[i] = s[j] => i = j

FirstIndex(s, x) == CHOOSE i \in DOMAIN s : s[i] = x /\ \A j \in 1 .. (i - 1) : s[j] /= x

FirstOccurrenceOrder(in, out) ==
    \A i, j \in DOMAIN out : i < j => FirstIndex(in, out[i]) < FirstIndex(in, out[j])

\* the product anchors of a page, as written
ProductHrefs(html) == { html[i] : i \in { k \in DOMAIN html : html[k].path \in ProductPaths } }

\* C7: what the page parser and the per-category deduplication return has no two equal
\* URLs, holds only normalized input URLs in the order of their first occurrence, and,
\* unless the limit cuts it, every one of them: hrefs that differ only in query string
\* or fragment give one entry
C7_Deduplication ==
    /\ (call.op = "get_product_urls_from_collection" /\ ~Falsy(call.html)) =>
          LET hrefs == ProductHrefs(call.html.text)
              paths == { h.path : h \in hrefs }
          IN  /\ NoDuplicates(call.out)
              /\ \A i \in DOMAIN call.out :
                    /\ call.out[i].query = "" /\ call.out[i].fragment = ""
                    /\ call.out[i].path \in paths
              /\ \A i, j \in DOMAIN call.out : call.out[i].path = call.out[j].path => i = j
              /\ FirstOccurrenceOrder([k \in DOMAIN CollectedUrls(call.html.text) |->
                                          CollectedUrls(call.html.text)[k]], call.out)
              /\ Len(call.out) <= call.limit
              /\ call.limit >= Cardinality(paths) =>
                    { call.out[i].path : i \in DOMAIN call.out } = paths
    /\ call.op = "dedup_category" =>
          /\ NoDuplicates(call.out)
          /\ SeqRange(call.out) = SeqRange(call.urls)
          /\ FirstOccurrenceOrder(call.urls, call.out)

\* C7's case: a page of three product anchors, two of them differing only in the query
\* string, gives two URLs
C7_CollapseWitness ==
    /\ call.op = "get_product_urls_from_collection"
    /\ ~Falsy(call.html)
    /\ Len(call.html.text) = 3
    /\ \E i, j \in DOMAIN call.html.text :
          /\ i < j
          /\ call.html.text[i].path = call.html.text[j].path
          /\ call.html.text[i].query /= call.html.text[j].query
          /\ call.html.text[i].path \in ProductPaths
    /\ Len(call.out) = 2

\* C8: a listing fetch that failed, like a page without product anchors or an empty
\* page, makes get_product_urls_from_collection return the empty list, never raise: no
\* catalog run ends in its listing phase with an exception
C8_ListingNeverFails == ~(failure.raised /\ failure.where = "listing _fetch")

\* 1234.50
Price1234Value == [mant |-> 12345, scale |-> 1]

\* C9: save_product never raises on the price: a record priced "$1,234.50" is stored
\* with the number 1234.50, and a record whose price text is no number is stored all the
\* same whenever the database accepts the write
C9_PriceParsedOrUnpriced ==
    call.op = "save_product" =>
        /\ call.raised = ""
        /\ call.db = "ok" => RowsOf(call.data.Product_URL) /= {}
        /\ (call.db = "ok" /\ call.data.Product_Price = Price1234 /\ Len(rows) = 1
               /\ rows[1].updated_at = 0 /\ rows[1].product_title = call.data.Product_Title)
              => rows[1].product_price = Price1234Value

\* the links of the images a task has stored, in image order
RECURSIVE UploadedLinks(_, _)
UploadedLinks(unit, i) ==
    IF i >= Len(unit.data.Product_Images) THEN <<>>
    ELSE (IF i \in unit.uploaded
          THEN <<UploadImageBytes(S3Key(unit.category, FolderName(unit.data.Product_Title), i),
                                  "ok")>>
          ELSE <<>>) \o UploadedLinks(unit, i + 1)

\* C10: when a task whose page was fetched has ended, unless the store failed, the
\* product's row exists; and a row written by the task holds exactly the links of the
\* images it fetched and stored, in order, and their number
C10_UploadedImagesPersisted ==
    \A u \in DOMAIN units :
        (Finished(units[u]) /\ units[u].stage = "image"
            /\ (units[u].pc = "done" => units[u].saved)) =>
            /\ RowsOf(units[u].url) /= {}
            /\ \A i \in RowsOf(units[u].url) :
                  rows[i].updated_at = 0 /\ units[u].pc = "done" =>
                      /\ rows[i].product_images = UploadedLinks(units[u], 0)
                      /\ rows[i].image_count = Cardinality(units[u].uploaded)

\* the tasks whose save_product call met a connection failure and rolled back
PersistFailed(u) ==
    units[u].pc = "done" /\ units[u].stage = "image" /\ ~units[u].saved

\* C11: a connection failure during save_product rolls the write back, is not retried,
\* and surfaces in the results of the run as an error record of the persist stage for
\* the product's URL
C11_PersistFailureRecorded ==
    program = "ingest" =>
        \A u \in DOMAIN units :
            PersistFailed(u) =>
                \E k \in DOMAIN results_by_category[units[u].category] :
                    LET r == results_by_category[units[u].category][k]
                    IN  r.Product_URL = units[u].url /\ "error" \in DOMAIN r

\* a client could not be constructed at startup
StartupFailed == failure.raised /\ failure.where = "startup"

\* C12: when the object-storage client or the database client cannot be constructed at
\* startup the run is aborted with nothing dispatched: no listing fetch and no product
\* or image fetch has entered the semaphore, no task exists, no URL was collected and
\* no row was written
C12_StartupFailureAborts ==
    StartupFailed =>
        /\ mainPc = "aborted"
        /\ listing = "idle"
        /\ units = <<>>
        /\ sem = concurrent_requests
        /\ \A c \in CategorySet : urls_by_category[c] = <<>>
        /\ rows = <<>>

\* C12's case: the object-storage client was constructed and the database client was not
C12_DatabaseDownWitness ==
    StartupFailed /\ failure.exc = "OperationalError" /\ mainPc = "aborted"

\* a sink holds the records of a category
SinkHolds(sink, c) ==
    results_by_category[c] = <<>> \/ (c \in DOMAIN sink /\ sink[c] = results_by_category[c])

\* a sink holds no record
SinkEmpty(sink) == \A c \in DOMAIN sink : sink[c] = <<>>

\* C13: a run that ends has put every record in exactly one sink, chosen by save_local
\* alone: the local files when it is set, remote persistence when it is not
C13_ExactlyOneSink ==
    output.done =>
        IF save_local
        THEN /\ \A c \in CategorySet : SinkHolds(output.files, c)
             /\ SinkEmpty(output.remote)
        ELSE /\ \A c \in CategorySet : SinkHolds(output.remote, c)
             /\ SinkEmpty(output.files)

\* C14: a run that ends reports, in either output mode, for every configured category
\* the number of products that succeeded and the number that failed, and drops no
\* category's results
C14_EveryCategoryReported ==
    output.done =>
        \A c \in CategorySet :
            /\ c \in DOMAIN output.saved
            /\ output.saved[c] = SuccessCount(results_by_category[c])
            /\ c \in DOMAIN output.failed
            /\ output.failed[c] = Len(results_by_category[c]) - output.saved[c]
            /\ SinkHolds(output.files, c) \/ SinkHolds(output.remote, c)

\* the slots taken from the semaphore are those of the fetches that sleep or request
SlotHeldWhileInside == sem = concurrent_requests - InFlight

\* a fetch is dispatched only after its delay, and the delay starts only by taking a slot
DelayBeforeDispatch ==
    /\ (listing' = "requesting" /\ listing /= "requesting") => listing = "sleeping"
    /\ (listing' = "sleeping" /\ listing /= "sleeping") =>
          listing = "waiting" /\ sem > 0 /\ sem' = sem - 1
    /\ \A u \in DOMAIN units' :
          /\ units'[u].pc = "requesting" =>
                u \in DOMAIN units /\ units[u].pc \in {"sleeping", "requesting"}
          /\ units'[u].pc = "sleeping" =>
                /\ u \in DOMAIN units
                /\ units[u].pc \in {"waiting", "sleeping"}
                /\ units[u].pc = "waiting" => sem > 0 /\ sem' = sem - 1

\* C15: in both programs every request goes acquire a slot, wait request_delay,
\* dispatch, in this order, also when the slots are contended; the slot is held during
\* the delay
C15_DelayInsideSlot == []SlotHeldWhileInside /\ [][DelayBeforeDispatch]_vars

\* C15's case: with every slot taken, one fetch sleeps inside the semaphore while another
\* waits for a slot
C15_ContendedDelayWitness ==
    /\ sem = 0
    /\ \E u, v \in DOMAIN units : units[u].pc = "sleeping" /\ units[v].pc = "waiting"

\* the number of times the page of a product URL was requested, over all categories
RECURSIVE PageFetches(_, _)
PageFetches(url, cats) ==
    IF cats = {} THEN 0
    ELSE LET c == CHOOSE x \in cats : TRUE
         IN  fetched[FetchKey("page", c, 0, url, 0)] + PageFetches(url, cats \ {c})

\* C16 as stated: a catalog run requests each listing URL and each product URL at most
\* once, so that a failed fetch of a URL is never followed by another fetch of it
C16_AtMostOncePerRun ==
    program = "catalog" =>
        /\ \A c \in CategorySet, page \in 1 .. number_of_pages :
              fetched[FetchKey("listing", c, page, NoUrl, 0)] <= 1
        /\ \A url \in Urls : PageFetches(url, CategorySet) <= 1

\* C16, amended: a catalog run requests each listing URL at most once and each product
\* URL at most once for each category that lists it; no request is repeated after it
\* failed
C16_AtMostOncePerCategory ==
    program = "catalog" => \A k \in FetchKeys : fetched[k] <= 1

\* C16's case: a run has ended in which a product's only fetch failed and left an error
\* record
C16_FailedOnceWitness ==
    /\ program = "catalog"
    /\ mainPc = "done"
    /\ \E c \in CategorySet :
          \E i \in DOMAIN results_by_category[c] :
              /\ "error" \in DOMAIN results_by_category[c][i]
              /\ fetched[FetchKey("page", c, 0, results_by_category[c][i].Product_URL, 0)] = 1

\* the keys of a product record
ProductRecordKeys ==
    { "Product_Title", "Product_Price", "Product_Images", "No_of_Images", "Product_Details",
      "Financing", "Promo_Tagline", "Size_Options", "Product_URL" }

\* a page has no element of a kind
Lacks(html, tag) == \A i \in DOMAIN html.text : html.text[i].tag /= tag

\* C17: on what _fetch returned, scrape_product gives an error record exactly when the
\* content is None or empty; on any other content it gives a product record with every
\* key, for the URL it was called with, and an element the page lacks leaves the key's
\* default
C17_ErrorIffNoContent ==
    call.op = "scrape_product" =>
        /\ "error" \in DOMAIN call.out <=> Falsy(call.html)
        /\ call.out.Product_URL = call.url
        /\ ~Falsy(call.html) =>
              /\ DOMAIN call.out = ProductRecordKeys
              /\ Lacks(call.html, "title") =>
                    call.out.Product_Title = <<"No", " ", "title", " ", "found">>
              /\ Lacks(call.html, "price") => call.out.Product_Price = NoPriceFound
              /\ Lacks(call.html, "image") =>
                    call.out.Product_Images = <<>> /\ call.out.No_of_Images = 0
              /\ Lacks(call.html, "details") => call.out.Product_Details = <<>>
              /\ Lacks(call.html, "financing") => call.out.Financing.size = 0
              /\ Lacks(call.html, "tagline") => call.out.Promo_Tagline = None
              /\ Lacks(call.html, "sizes") => call.out.Size_Options = <<>>

\* C17's case: a page with content but without title, price and size options gives a
\* product record
C17_DefaultsWitness ==
    /\ call.op = "scrape_product"
    /\ ~Falsy(call.html)
    /\ Lacks(call.html, "title") /\ Lacks(call.html, "price") /\ Lacks(call.html, "sizes")
    /\ ~Lacks(call.html, "tagline")
    /\ "error" \notin DOMAIN call.out

\* C18 as stated: a page without the financing button gives a product record whose
\* financing is null
C18_FinancingNull ==
    (call.op = "scrape_product" /\ ~Falsy(call.html) /\ Lacks(call.html, "financing")) =>
        /\ "error" \notin DOMAIN call.out
        /\ call.out.Financing = NullDict

\* C18, amended: a page without the financing button gives a product record, not an
\* error record, whose financing is the empty dict {}
C18_FinancingEmptyDict ==
    (call.op = "scrape_product" /\ ~Falsy(call.html) /\ Lacks(call.html, "financing")) =>
        /\ "error" \notin DOMAIN call.out
        /\ call.out.Financing = EmptyDict

\* C18's case: a titled page with images and no financing button has been parsed
C18_NoFinancingWitness ==
    /\ call.op = "scrape_product"
    /\ ~Falsy(call.html)
    /\ Lacks(call.html, "financing")
    /\ ~Lacks(call.html, "title")
    /\ ~Lacks(call.html, "image")
    /\ call.out.Financing = EmptyDict

\* C19: for limit L get_product_urls_from_collection returns at most L URLs, and they are
\* the first L of the page's normalized URLs without their repetitions, in the order of
\* first occurrence: as many as L or as there are distinct URLs, none skipped, so that a
\* repeated URL takes no place of the limit
C19_TruncationAfterDedup ==
    (call.op = "get_product_urls_from_collection" /\ ~Falsy(call.html)) =>
        LET urls     == CollectedUrls(call.html.text)
            distinct == SeqRange(urls)
        IN  /\ Len(call.out) <= call.limit
            /\ Len(call.out) = IF call.limit < Cardinality(distinct)
                               THEN call.limit ELSE Cardinality(distinct)
            /\ SeqRange(call.out) \subseteq distinct
            /\ NoDuplicates(call.out)
            /\ FirstOccurrenceOrder(urls, call.out)
            /\ \A x \in distinct : \A i \in DOMAIN call.out :
                  FirstIndex(urls, x) < FirstIndex(urls, call.out[i]) =>
                      x \in SeqRange(call.out)

\* C19's case: with limit 2, a page whose first two anchors give the same URL and whose
\* third gives another returns both URLs
C19_DuplicateBeforeLimitWitness ==
    /\ call.op = "get_product_urls_from_collection"
    /\ ~Falsy(call.html)
    /\ call.limit = 2
    /\ LET urls == CollectedUrls(call.html.text)
       IN  /\ Len(urls) = 3
           /\ urls[1] = urls[2]
           /\ urls[3] /= urls[1]
           /\ call.out = <<urls[1], urls[3]>>

\* the entries of a category's results that are for a URL
EntriesFor(c, url) ==
    { k \in DOMAIN results_by_category[c] : results_by_category[c][k].Product_URL = url }

\* a run that has ended holds, for every category, one entry for each of its URLs and
\* no other entry
OneEntryPerUrl ==
    (program = "catalog" /\ mainPc = "done") =>
        \A c \in CategorySet :
            /\ Len(results_by_category[c]) = Len(urls_by_category[c])
            /\ \A i \in DOMAIN urls_by_category[c] :
                  Cardinality(EntriesFor(c, urls_by_category[c][i])) = 1
            /\ \A k \in DOMAIN results_by_category[c] :
                  results_by_category[c][k].Product_URL \in SeqRange(urls_by_category[c])

\* a step writes the accumulator for at most one task: it appends one entry to the
\* results of the category being processed and leaves every other entry alone
OneWriterStep ==
    program = "catalog" =>
        \/ results_by_category' = results_by_category
        \/ \E r \in SeqRange(results_by_category'[Categories[ci]]) :
              results_by_category' = Appended(results_by_category, Categories[ci], r)

\* C20: whatever the order in which the tasks of a category end, when the catalog run has
\* ended each category's results hold exactly one entry for each URL of the category's
\* deduplicated list, none lost, repeated or filed under another category, and the
\* accumulator is written for one task at a time
C20_AggregationOrderFree == []OneEntryPerUrl /\ [][OneWriterStep]_vars

\* C20's case: a run has ended in which the second URL of a category was answered first
C20_ReverseCompletionWitness ==
    /\ program = "catalog"
    /\ mainPc = "done"
    /\ \E c \in CategorySet :
          /\ Len(urls_by_category[c]) = 2
          /\ Len(results_by_category[c]) = 2
          /\ results_by_category[c][1].Product_URL = urls_by_category[c][2]
          /\ results_by_category[c][2].Product_URL = urls_by_category[c][1]

\* the position of a category in scrape's categories
CategoryIndex(c) == CHOOSE i \in DOMAIN Categories : Categories[i] = c

\* the number of requests made for page `page` of the listing of category c
ListingFetches(c, page) == fetched[FetchKey("listing", c, page, NoUrl, 0)]

\* pair (c, p) comes before pair (d, q): earlier category, or same category and lower page
PairBefore(c, p, d, q) ==
    \/ CategoryIndex(c) < CategoryIndex(d)
    \/ c = d /\ p < q

\* the listing requests made so far
RECURSIVE ListingFetchTotal(_)
ListingFetchTotal(keys) ==
    IF keys = {} THEN 0
    ELSE LET k == CHOOSE x \in keys : TRUE
         IN  ListingFetches(k[1], k[2]) + ListingFetchTotal(keys \ {k})

ListingPairs == CategorySet \X (1 .. number_of_pages)

\* C21: the catalog run requests the listing pages one at a time, in category order and
\* within a category in ascending page order: a pair is requested only when every pair
\* before it has been, a request is made only after the one before it was answered, no
\* pair is requested twice and no other page is requested; and a run that has left the
\* listing phase has requested every (category, page) pair once
C21_SequentialListing ==
    program = "catalog" =>
        /\ \A c \in CategorySet : ListingFetches(c, 0) = 0
        /\ \A pair \in ListingPairs : ListingFetches(pair[1], pair[2]) <= 1
        /\ \A pair, earlier \in ListingPairs :
              (ListingFetches(pair[1], pair[2]) = 1
                  /\ PairBefore(earlier[1], earlier[2], pair[1], pair[2]))
                 => ListingFetches(earlier[1], earlier[2]) = 1
        /\ mainPc = "listing" =>
              ListingFetchTotal(ListingPairs) =
                  (li - 1) + (IF listing = "requesting" THEN 1 ELSE 0)
        /\ mainPc \in {"products", "done"} =>
              \A pair \in ListingPairs : ListingFetches(pair[1], pair[2]) = 1

\* C21's case: every page of the first category has been answered and the first page of
\* the second category is being requested
C21_SecondCategoryWitness ==
    /\ program = "catalog"
    /\ mainPc = "listing"
    /\ listing = "requesting"
    /\ \A page \in 1 .. number_of_pages : ListingFetches(Categories[1], page) = 1
    /\ ListingFetches(Categories[2], 1) = 1
    /\ ListingFetchTotal(ListingPairs) = number_of_pages + 1

\* the requests of a task have all been made: its page and every image of its list
AllRequested(unit) ==
    /\ fetched[FetchKey("page", unit.category, 0, unit.url, 0)] >= 1
    /\ \A i \in 0 .. (Len(unit.data.Product_Images) - 1) :
          fetched[FetchKey("image", unit.category, 0, unit.url, i)] >= 1

\* a step that calls save_product (the clock ticks) or changes the table is the step of
\* one task whose page was fetched and parsed, whose image attempts are all over, and
\* that ends with it; a task that has ended takes no further step while its category is
\* being processed
SaveProductStep ==
    program = "ingest" =>
        /\ (clock' /= clock \/ rows' /= rows) =>
              /\ clock' = clock + 1
              /\ \E u \in DOMAIN units :
                    /\ units[u].stage = "image"
                    /\ units[u].pc \in {"requesting", "uploading"}
                    /\ units[u].i = Len(units[u].data.Product_Images) - 1
                    /\ AllRequested(units[u])
                    /\ units'[u].pc = "done"
                    /\ \A v \in DOMAIN units \ {u} : units'[v] = units[v]
                    /\ \A k \in DOMAIN rows' :
                          (k \notin DOMAIN rows \/ rows'[k] /= rows[k]) =>
                              rows'[k].product_url = units[u].url
        /\ \A u \in DOMAIN units :
              (units[u].pc = "done" /\ mainPc = "products" /\ mainPc' = "products") =>
                  units'[u] = units[u]

\* C22: save_product is called by a task only when the task's page fetch gave content,
\* only after the fetch (and upload) of every image of the product has been attempted,
\* and at most once per task; a task whose page fetch gave nothing never calls it
C22_SaveAfterAllImages == [][SaveProductStep]_vars

\* C22's case: a product whose image fetches all failed has been saved, without links
C22_SavedWithoutImagesWitness ==
    /\ program = "ingest"
    /\ \E u \in DOMAIN units :
          /\ units[u].pc = "done"
          /\ units[u].saved
          /\ units[u].uploaded = {}
          /\ AllRequested(units[u])
          /\ RowsOf(units[u].url) /= {}

\* C23: however the create_collection calls and the health check interleave, no create
\* request is made for a collection that exists, and at most one is made per name
C23_CreateOnlyIfMissing ==
    program = "create_collection" =>
        \A n \in CollectionNames : qdrant.conflicts[n] = 0 /\ qdrant.creates[n] <= 1

\* the run has ended: scrape returned or raised
RunEnded == mainPc \in {"done", "aborted"}

\* at the end of a run no fetch is inside the semaphore, every slot is back and no task
\* is left unfinished
EndedClean ==
    RunEnded =>
        /\ InFlight = 0
        /\ sem = concurrent_requests
        /\ \A u \in DOMAIN units : Finished(units[u])

\* the slots taken are exactly those of the fetches between acquire and the end of the
\* request: a task that waits for a slot, uploads, saves or has ended holds none
NoHoldAndWait ==
    /\ sem >= 0
    /\ sem + InFlight = concurrent_requests

\* C24: in both programs, for every cap, each slot a fetch took is given back when the
\* fetch ends, by a return or by an exception; no task holds a slot while it waits for
\* one; and when every call ends the run ends, with every task finished and no fetch
\* inside the semaphore
C24_LimiterGivenBack == [](NoHoldAndWait /\ EndedClean) /\ <>[]RunEnded

\* C24's case: a run under cap 1 has ended after a task fetched its page and then its
\* images, one slot after another
C24_CapOneEndedWitness ==
    /\ concurrent_requests = 1
    /\ mainPc = "done"
    /\ sem = 1
    /\ \E u \in DOMAIN units :
          /\ units[u].pc = "done"
          /\ program = "ingest" => units[u].stage = "image" /\ units[u].i = MaxImages - 1

\* the number of requests made for the page of product url of category c
ProductFetches(c, url) == fetched[FetchKey("page", c, 0, url, 0)]

\* a scrape_product task of category c has been started or has requested its page
Dispatched(c) ==
    \/ \E url \in Urls : ProductFetches(c, url) > 0
    \/ mainPc = "products" /\ Categories[ci] = c /\ units /= <<>>

\* every task of category c has ended and its result is in results_by_category
Completed(c) ==
    /\ Len(results_by_category[c]) = Len(urls_by_category[c])
    /\ \A i \in DOMAIN urls_by_category[c] :
          /\ results_by_category[c][i].Product_URL \in SeqRange(urls_by_category[c])
          /\ ProductFetches(c, urls_by_category[c][i]) = 1
    /\ mainPc = "products" => Categories[ci] /= c

\* C25: the catalog run has two phases and processes the categories one after another:
\* no scrape_product task exists and no product page is requested while a listing page
\* is still to be fetched or the lists are not yet deduplicated; a task of a category is
\* started only when every task of each category before it has ended and left its
\* result; and a category whose list is empty gets no task
C25_PhasedRun ==
    program = "catalog" =>
        /\ mainPc = "listing" => units = <<>> /\ \A c \in CategorySet : ~Dispatched(c)
        /\ \A c \in CategorySet :
              Dispatched(c) =>
                 /\ \A pair \in ListingPairs : ListingFetches(pair[1], pair[2]) = 1
                 /\ \A d \in CategorySet : NoDuplicates(urls_by_category[d])
                 /\ urls_by_category[c] /= <<>>
                 /\ \A url \in Urls :
                       ProductFetches(c, url) > 0 => url \in SeqRange(urls_by_category[c])
                 /\ \A d \in CategorySet :
                       CategoryIndex(d) < CategoryIndex(c) => Completed(d)
        /\ mainPc = "products" =>
              /\ urls_by_category[Categories[ci]] /= <<>>
              /\ DOMAIN units = DOMAIN urls_by_category[Categories[ci]]
              /\ \A u \in DOMAIN units : units[u].url = urls_by_category[Categories[ci]][u]

\* C25's case: every task of the first category has ended and a product page of the
\* second category is being requested
C25_SecondCategoryWitness ==
    /\ program = "catalog"
    /\ mainPc = "products"
    /\ ci = 2
    /\ urls_by_category[Categories[1]] /= <<>>
    /\ Completed(Categories[1])
    /\ \E u \in DOMAIN units : units[u].pc = "requesting"

\* the key image i of a task's product is stored under
UploadKey(unit, i) == S3Key(unit.category, FolderName(unit.data.Product_Title), i)

\* the links a task has collected are those of the images it stored, in list order, each
\* under the key of the image's own position in data["Product Images"]
KeysFollowScheme ==
    \A u \in DOMAIN units :
        /\ Len(units[u].s3_urls) = Cardinality(units[u].uploaded)
        /\ \A i \in units[u].uploaded :
              units[u].s3_urls[Cardinality({ j \in units[u].uploaded : j <= i })].key =
                  UploadKey(units[u], i)

\* two stored images of different (product URL, index) pairs have different keys
KeysDistinct ==
    \A u, v \in DOMAIN units :
        \A i \in units[u].uploaded, j \in units[v].uploaded :
            (units[u].url /= units[v].url \/ i /= j) =>
                UploadKey(units[u], i) /= UploadKey(units[v], j)

\* C26: every image is stored under category/folder/img_index, the folder made from the
\* product title and the index being the image's position in the product's image list,
\* and within a run no two different (product URL, image index) pairs are stored under
\* the same key
C26_UploadKeysDistinct == program = "ingest" => KeysFollowScheme /\ KeysDistinct

====
